---------------------------- MODULE Spec2Model ----------------------------
(***************************************************************************)
(* State-machine model of UDNNewsScraper (src/UDNNewsScraper.py).          *)
(*                                                                         *)
(* One UDNNewsScraper object is modelled.  scrape() is split into its      *)
(* sequential steps (one action per step of the try block, the except      *)
(* handler and the finally clause); close() is one action.  The browser,   *)
(* the web site and the file system are the environment: every call into   *)
(* them either succeeds or raises an Exception, chosen with \E.            *)
(* Python None is the empty tuple, a present value x is <<x>>.             *)
(***************************************************************************)
EXTENDS Integers, Sequences, FiniteSets, TLC

(* ------------------------------ bounds --------------------------------- *)
\* largest result count the site reports in the "N results found" marker
MaxResults == 21
\* largest number of result anchors one listing page renders
LinksPerPage == 2
\* largest max_pages argument tried (the smallest is -1)
MaxPagesArg == 2
\* largest max_articles argument tried (the smallest is -1)
MaxArticlesArg == 2
\* close() calls are followed until the teardown was invoked this many times
MaxQuits == 2

(* --------------------------- program constants ------------------------- *)
\* math.ceil(total_results / 20)
PageSize == 20

None == <<>>
Some(x) == <<x>>

Min(a, b) == IF a <= b THEN a ELSE b
Max(a, b) == IF a >= b THEN a ELSE b

VARIABLES
    pc,            \* position of the control flow of scrape(): "idle" before the call, "done" after it
    driver,        \* self.driver: None or the WebDriver object
    startCount,    \* number of browsers webdriver.Edge(...) has started
    quitCount,     \* number of driver.quit() invocations
    manual_mode,   \* argument of scrape()
    output_file,   \* argument of scrape(): None or Some(path)
    max_pages,     \* argument of scrape(): None or Some(int)
    max_articles,  \* argument of scrape(): int
    loginClicked,  \* the institutional-login control was clicked (line 211 completed)
    loginError,    \* the except branch of the login step ran (lines 216-218)
    inputWaits,    \* number of input() calls (line 215)
    total_results, \* local of scrape()
    total_pages,   \* local of scrape()
    pagesHarvested,\* result pages whose anchors were appended, in order (values of current_page)
    pbarPages,     \* the page progress bar's counter (tqdm.n)
    harvested,     \* news_links as it is before line 287
    news_links,    \* news_links as it is after line 287
    visited,       \* links handed to _fetch_article_content, in order
    pbarArticles,  \* the article progress bar's counter
    news_data,     \* local of scrape(): the list of record dicts
    file,          \* the output file: None (absent) or Some(table written)
    returned,      \* outcome of scrape(): nothing yet, a table, or a raised exception
    failedAt,      \* the step whose exception left the try block ("none" when none did)
    fEnv,          \* input of a stand-alone _fetch_article_content evaluation
    fRec           \* its result

vars == <<pc, driver, startCount, quitCount, manual_mode, output_file, max_pages,
          max_articles, loginClicked, loginError, inputWaits, total_results,
          total_pages, pagesHarvested, pbarPages, harvested, news_links, visited,
          pbarArticles, news_data, file, returned, failedAt, fEnv, fRec>>

inputVars == <<manual_mode, output_file, max_pages, max_articles>>
loginVars == <<loginClicked, loginError, inputWaits>>
pageVars == <<total_results, total_pages, pagesHarvested, pbarPages, harvested>>
articleVars == <<news_links, visited, pbarArticles, news_data>>
browserVars == <<driver, startCount, quitCount>>
fetchVars == <<fEnv, fRec>>

(* ------------------------------ tables --------------------------------- *)
FourKeys == <<"News ID", "Title", "Date", "Content">>
ThreeKeys == <<"Title", "Date", "Content">>

SeqToSet(s) == {s[i] : i \in 1..Len(s)}

\* insertion order of the keys of a record dict built at lines 164-169 or 172-176
KeyOrder(rec) == IF "News ID" \in DOMAIN rec THEN FourKeys ELSE ThreeKeys

RECURSIVE AppendNew(_, _)
AppendNew(cols, keys) ==
    IF keys = <<>> THEN cols
    ELSE AppendNew(IF Head(keys) \in SeqToSet(cols) THEN cols ELSE Append(cols, Head(keys)),
                   Tail(keys))

RECURSIVE ColumnsOf(_)
\* pd.DataFrame(list of dicts): the columns are the keys in order of first appearance
ColumnsOf(data) ==
    IF data = <<>> THEN <<>>
    ELSE AppendNew(KeyOrder(data[1]), ColumnsOf(Tail(data)))

DataFrame(data) == [kind |-> "table", columns |-> ColumnsOf(data), rows |-> data]

\* pd.DataFrame(columns=['Title', 'Date', 'Content'])
EmptyFrame == [kind |-> "table", columns |-> ThreeKeys, rows |-> <<>>]

NoResult == [kind |-> "none", columns |-> <<>>, rows |-> <<>>]
Raised == [kind |-> "raised", columns |-> <<>>, rows |-> <<>>]

(* ------------------------------ Init ----------------------------------- *)
NoEnv == [nav |-> TRUE, url |-> "neither", title |-> None, date |-> None,
          sel |-> <<>>, body |-> None]
NoRec == [Title |-> "", Date |-> "", Content |-> ""]

Init ==
    /\ pc = "idle"
    /\ driver = None
    /\ startCount = 0
    /\ quitCount = 0
    /\ manual_mode = FALSE
    /\ output_file = None
    /\ max_pages = None
    /\ max_articles = 0
    /\ loginClicked = FALSE
    /\ loginError = FALSE
    /\ inputWaits = 0
    /\ total_results = 0
    /\ total_pages = 0
    /\ pagesHarvested = <<>>
    /\ pbarPages = 0
    /\ harvested = <<>>
    /\ news_links = <<>>
    /\ visited = <<>>
    /\ pbarArticles = 0
    /\ news_data = <<>>
    /\ file = None
    /\ returned = NoResult
    /\ failedAt = "none"
    /\ fEnv = NoEnv
    /\ fRec = NoRec

(* --------------------------- scrape(): start --------------------------- *)
OutputFiles == {None, Some("out.csv")}
MaxPagesArgs == {None} \cup {Some(n) : n \in -1..MaxPagesArg}
MaxArticlesArgs == -1..MaxArticlesArg

\* lines 194-200: the call binds the arguments and starts the browser outside the
\* try block; a failing _setup_driver leaves self.driver None and raises
ScrapeStart ==
    /\ pc = "idle"
    /\ manual_mode' \in BOOLEAN
    /\ output_file' \in OutputFiles
    /\ max_pages' \in MaxPagesArgs
    /\ max_articles' \in MaxArticlesArgs
    /\ \/ /\ driver' = Some("Edge")
          /\ startCount' = startCount + 1
          /\ pc' = "nav1"
          /\ UNCHANGED <<returned, failedAt>>
       \/ /\ pc' = "done"
          /\ returned' = Raised
          /\ failedAt' = "setup"
          /\ UNCHANGED <<driver, startCount>>
    /\ UNCHANGED <<quitCount, loginVars, pageVars, articleVars, file, fetchVars>>

\* Fail changed: the failing step is treated as a soft failure and the run goes on
\* to the result pages
Fail_proceed(step) ==
    /\ pc' = "pages"
    /\ failedAt' = step

\* an exception raised at `step` inside the try block: control goes to line 315
Fail(step) ==
    /\ pc' = "handler"
    /\ failedAt' = step

\* lines 203-205: driver.get(portal)
OpenPortal ==
    /\ pc = "nav1"
    /\ \/ pc' = "login" /\ UNCHANGED failedAt
       \/ Fail("nav1")
    /\ UNCHANGED <<browserVars, inputVars, loginVars, pageVars, articleVars, file,
                   returned, fetchVars>>

\* LoginStep changed: a failure to trigger the login control is not caught
LoginStep_fatal ==
    /\ pc = "login"
    /\ \/ /\ loginClicked' = FALSE
          /\ loginError' = TRUE
          /\ UNCHANGED inputWaits
          /\ pc' = "handler"
          /\ failedAt' = "login"
       \/ /\ loginClicked' = TRUE
          /\ IF manual_mode
             THEN /\ inputWaits' = inputWaits + 1
                  /\ loginError' \in BOOLEAN
             ELSE /\ loginError' = FALSE
                  /\ UNCHANGED inputWaits
          /\ pc' = "renav"
          /\ UNCHANGED failedAt
    /\ UNCHANGED <<browserVars, inputVars, pageVars, articleVars, file, returned,
                   fetchVars>>

\* lines 207-218: the login control; every Exception of the inner try is printed
\* and swallowed, input() is reached only after the click and only in manual mode
LoginStep ==
    /\ pc = "login"
    /\ \/ /\ loginClicked' = FALSE          \* wait.until or execute_script raised
          /\ loginError' = TRUE
          /\ UNCHANGED inputWaits
       \/ /\ loginClicked' = TRUE
          /\ IF manual_mode
             THEN /\ inputWaits' = inputWaits + 1
                  /\ loginError' \in BOOLEAN  \* input() returned, or raised (EOFError)
             ELSE /\ loginError' = FALSE
                  /\ UNCHANGED inputWaits
    /\ pc' = "renav"
    /\ UNCHANGED <<browserVars, inputVars, pageVars, articleVars, file, returned,
                   failedAt, fetchVars>>

\* line 220: driver.get(portal) again
Renavigate ==
    /\ pc = "renav"
    /\ \/ pc' = "fill" /\ UNCHANGED failedAt
       \/ Fail("renav")
    /\ UNCHANGED <<browserVars, inputVars, loginVars, pageVars, articleVars, file,
                   returned, fetchVars>>

\* lines 222-236: keyword, start date and end date fields
FillFields ==
    /\ pc = "fill"
    /\ \/ pc' = "submit" /\ UNCHANGED failedAt
       \/ Fail("fill")
    /\ UNCHANGED <<browserVars, inputVars, loginVars, pageVars, articleVars, file,
                   returned, fetchVars>>

\* lines 238-245: the search button
SubmitSearch ==
    /\ pc = "submit"
    /\ \/ pc' = "results" /\ UNCHANGED failedAt
       \/ Fail("submit")
    /\ UNCHANGED <<browserVars, inputVars, loginVars, pageVars, articleVars, file,
                   returned, fetchVars>>


(* ------------------- scrape(): result count and pages ------------------- *)
\* line 252: math.ceil(total_results / 20)
CeilPages(t) == IF t % PageSize = 0 THEN t \div PageSize ELSE t \div PageSize + 1

\* TotalPages changed: the clamp is applied to every max_pages that is not None
TotalPages_noPositiveGuard(t, mp) ==
    IF mp # None THEN Min(mp[1], CeilPages(t)) ELSE CeilPages(t)

\* lines 252-255: the page count, clamped by max_pages only when it is given and positive
TotalPages(t, mp) ==
    IF mp # None /\ mp[1] > 0 THEN Min(mp[1], CeilPages(t)) ELSE CeilPages(t)

\* lines 247-255: wait for the result message, read the count from the page source
\* (0 when the marker is absent), compute total_pages
ReadResults ==
    /\ pc = "results"
    /\ \/ /\ \E t \in 0..MaxResults :
                /\ total_results' = t
                /\ total_pages' = TotalPages(t, max_pages)
          /\ pc' = "pages"
          /\ UNCHANGED failedAt
       \/ /\ Fail("results")
          /\ UNCHANGED <<total_results, total_pages>>
    /\ UNCHANGED <<browserVars, inputVars, loginVars, pagesHarvested, pbarPages,
                   harvested, articleVars, file, returned, fetchVars>>

\* the anchors of listing page p: a link is identified by <<page, position>>
PageLinks(p, k) == [i \in 1..k |-> <<p, i>>]

\* lines 263-284, one iteration of the page loop: current_page is the next unvisited
\* page; navigating to it (pages after the first) or waiting for its anchors may
\* raise; otherwise all its anchors are appended and the progress bar advances
HarvestPage ==
    /\ pc = "pages"
    /\ Len(pagesHarvested) < total_pages
    /\ LET current_page == Len(pagesHarvested) + 1 IN
       \/ /\ \E k \in 1..LinksPerPage :
                harvested' = harvested \o PageLinks(current_page, k)
          /\ pagesHarvested' = Append(pagesHarvested, current_page)
          /\ pbarPages' = pbarPages + 1
          /\ UNCHANGED <<pc, failedAt>>
       \/ /\ Fail("page")
          /\ UNCHANGED <<pagesHarvested, pbarPages, harvested>>
    /\ UNCHANGED <<browserVars, inputVars, loginVars, total_results, total_pages,
                   articleVars, file, returned, fetchVars>>

\* Python s[:n]: the first n items for n >= 0, all but the last -n items for n < 0
PySliceTo(s, n) ==
    IF n >= 0 THEN SubSeq(s, 1, Min(n, Len(s)))
    ELSE SubSeq(s, 1, Max(Len(s) + n, 0))

\* line 287
TruncateExpr(links, ma) == PySliceTo(links, Min(Len(links), ma))

\* lines 286-290: the page loop is exhausted; truncate the link list
TruncateLinks ==
    /\ pc = "pages"
    /\ Len(pagesHarvested) = total_pages
    /\ news_links' = TruncateExpr(harvested, max_articles)
    /\ pc' = "articles"
    /\ UNCHANGED <<browserVars, inputVars, loginVars, pageVars, visited, pbarArticles,
                   news_data, file, returned, failedAt, fetchVars>>

(* ---------------------- _fetch_article_content ------------------------- *)
\* What the browser answers for one article: nav = driver.get succeeds; url = shape
\* of the href; title = text of the h1 (None: the wait times out); date = text of the
\* story-source span (None: the wait times out); sel = per XPath selector what
\* find_elements and the paragraph lookup give; body = the body text as a sequence
\* of pieces, each a menu keyword or a run of other text (None: the lookup raises).
UrlShapes == {"news_id", "trailing", "neither"}

\* lines 98-110: news_id=(\d+) first, then a trailing /(\d+), else the sentinel
NewsIdOf(url, link) ==
    IF url = "news_id" THEN ToString(10 * link[1] + link[2])
    ELSE IF url = "trailing" THEN ToString(10 * link[1] + link[2])
    ELSE "Unknown ID"

DatedText == "2024-03-05 udn"
UndatedText == "udn"
\* line 124: re.search(r'(\d{4}-\d{2}-\d{2})', date_text)
DateSearch(text) == IF text = DatedText THEN Some("2024-03-05") ELSE None

\* lines 134-139
article_selectors == <<"//article", "//div[contains(@class, 'article')]",
                       "//div[contains(@class, 'content')]",
                       "//div[contains(@class, 'story')]">>

RECURSIVE JoinLines(_)
\* '\n'.join(ps)
JoinLines(ps) ==
    IF ps = <<>> THEN ""
    ELSE IF Len(ps) = 1 THEN ps[1]
    ELSE ps[1] \o "\n" \o JoinLines(Tail(ps))

NonEmpty(t) == t # ""

\* lines 143-153 for one selector: "" unless the selector matches, its first match has
\* paragraphs and the joined non-empty paragraph texts are non-empty; an exception
\* anywhere in the lookup is swallowed
SelectorText(o) ==
    IF o.kind = "found" /\ o.paras # <<>>
    THEN JoinLines(SelectSeq(o.paras, NonEmpty))
    ELSE ""

RECURSIVE SelectorLoop_lastWins(_, _, _)
\* SelectorLoop changed: no break, a later selector's text replaces an earlier one's
SelectorLoop_lastWins(selectors, sel, i) ==
    IF i > Len(selectors) THEN ""
    ELSE LET c == SelectorText(sel[selectors[i]])
             rest == SelectorLoop_lastWins(selectors, sel, i + 1) IN
         IF rest # "" THEN rest ELSE c

RECURSIVE SelectorLoop(_, _, _)
\* lines 141-153: the first selector of `selectors`, from position i on, giving text
SelectorLoop(selectors, sel, i) ==
    IF i > Len(selectors) THEN ""
    ELSE LET c == SelectorText(sel[selectors[i]]) IN
         IF c # "" THEN c ELSE SelectorLoop(selectors, sel, i + 1)

MenuWords == {"Login", "Register", "Member", "Home", "News", "Sports",
              "Entertainment", "Finance", "Health"}

RECURSIVE Concat(_)
Concat(pieces) == IF pieces = <<>> THEN "" ELSE Head(pieces) \o Concat(Tail(pieces))

NotMenuWord(piece) == piece \notin MenuWords

\* line 160: re.sub of the menu words by ''
CleanBody(pieces) == Concat(SelectSeq(pieces, NotMenuWord))

\* lines 132-162
ExtractContent(env) ==
    LET content == SelectorLoop(article_selectors, env.sel, 1) IN
    IF content # "" THEN content
    ELSE IF env.body = None THEN "Content extraction failed"
    ELSE CleanBody(env.body[1])

\* lines 112-118
ExtractTitle(env, index) ==
    IF env.title = None
    THEN "Article " \o ToString(index) \o " (title extraction failed)"
    ELSE env.title[1]

\* lines 120-130
ExtractDate(env) ==
    IF env.date = None THEN "Unknown date"
    ELSE IF DateSearch(env.date[1]) = None THEN "Unknown date"
    ELSE DateSearch(env.date[1])[1]

\* lines 92-176: the record dict returned for `link`
FetchArticle(link, index, env) ==
    IF env.nav
    THEN ("News ID" :> NewsIdOf(env.url, link)) @@ ("Title" :> ExtractTitle(env, index))
         @@ ("Date" :> ExtractDate(env)) @@ ("Content" :> ExtractContent(env))
    ELSE ("Title" :> "Article " \o ToString(index) \o " (processing failed)")
         @@ ("Date" :> "Unknown date")
         @@ ("Content" :> "Content extraction failed: " \o "navigation error")

(* ------------------------- article environments ----------------------- *)
NoMatch == [kind |-> "nomatch", paras |-> <<>>]
Throws == [kind |-> "throw", paras |-> <<>>]
Found(ps) == [kind |-> "found", paras |-> ps]

ParaLists == {<<>>, <<"">>, <<"a">>, <<"", "b">>, <<"a", "b">>}
SelOutcomes == {NoMatch, Throws} \cup {Found(ps) : ps \in ParaLists}
SelectorNames == SeqToSet(article_selectors)
BodyTexts == {None, Some(<<>>), Some(<<"Home", "body text", "News">>)}
TitleTexts == {None, Some("Headline")}
DateTexts == {None, Some(DatedText), Some(UndatedText)}

\* every answer of the browser for one article
AllEnvs == [nav : BOOLEAN, url : UrlShapes, title : TitleTexts, date : DateTexts,
            sel : [SelectorNames -> SelOutcomes], body : BodyTexts]

AllSel(o) == [x \in SelectorNames |-> o]
StoryOnly == [x \in SelectorNames |->
                IF x = article_selectors[4] THEN Found(<<"a", "b">>)
                ELSE IF x = article_selectors[1] THEN Found(<<"">>)
                ELSE NoMatch]

\* the article pages the scraping runs meet: an unreachable page, a complete page
\* whose text sits under the last selector, a page without heading, dated byline
\* and article markup, and a page where every lookup fails
ArticleEnvs ==
    { [nav |-> FALSE, url |-> "news_id", title |-> None, date |-> None,
       sel |-> AllSel(NoMatch), body |-> None],
      [nav |-> TRUE, url |-> "news_id", title |-> Some("Headline"),
       date |-> Some(DatedText), sel |-> StoryOnly, body |-> Some(<<>>)],
      [nav |-> TRUE, url |-> "trailing", title |-> None,
       date |-> Some(UndatedText), sel |-> AllSel(NoMatch),
       body |-> Some(<<"Home", "body text", "News">>)],
      [nav |-> TRUE, url |-> "neither", title |-> None,
       date |-> None, sel |-> AllSel(Throws), body |-> None] }

(* --------------------- scrape(): articles and export ------------------- *)
\* FetchNext changed: an article that cannot be opened is skipped without a record
FetchNext_dropFailed ==
    /\ pc = "articles"
    /\ Len(visited) < Len(news_links)
    /\ LET index == Len(visited) + 1
           link == news_links[index] IN
       /\ \E env \in ArticleEnvs :
             news_data' = IF env.nav
                          THEN Append(news_data, FetchArticle(link, index, env))
                          ELSE news_data
       /\ visited' = Append(visited, link)
    /\ pbarArticles' = pbarArticles + 1
    /\ UNCHANGED <<pc, browserVars, inputVars, loginVars, pageVars, news_links, file,
                   returned, failedAt, fetchVars>>

\* lines 291-302, one iteration of the article loop: the loop position is the
\* number of links already handed to _fetch_article_content.  That function
\* catches every Exception itself, so the except branch of lines 295-301 is
\* never entered and the record appended is the one it returns.
FetchNext ==
    /\ pc = "articles"
    /\ Len(visited) < Len(news_links)
    /\ LET index == Len(visited) + 1
           link == news_links[index] IN
       /\ \E env \in ArticleEnvs :
             news_data' = Append(news_data, FetchArticle(link, index, env))
       /\ visited' = Append(visited, link)
    /\ pbarArticles' = pbarArticles + 1
    /\ UNCHANGED <<pc, browserVars, inputVars, loginVars, pageVars, news_links, file,
                   returned, failedAt, fetchVars>>

\* Export changed: the table is written without looking at output_file
Export_alwaysWrite ==
    /\ pc = "articles"
    /\ Len(visited) = Len(news_links)
    /\ IF news_data # <<>>
       THEN \/ /\ file' = Some(DataFrame(news_data))
               /\ returned' = DataFrame(news_data)
               /\ pc' = "finally"
               /\ UNCHANGED failedAt
            \/ /\ Fail("write")
               /\ UNCHANGED <<file, returned>>
       ELSE /\ returned' = EmptyFrame
            /\ pc' = "finally"
            /\ UNCHANGED <<file, failedAt>>
    /\ UNCHANGED <<browserVars, inputVars, loginVars, pageVars, articleVars, fetchVars>>

\* lines 304-313: the article loop is exhausted.  df.to_csv may raise (the path
\* cannot be written); the exception goes to the handler like any other.
Export ==
    /\ pc = "articles"
    /\ Len(visited) = Len(news_links)
    /\ IF news_data # <<>>
       THEN IF output_file # None
            THEN \/ /\ file' = Some(DataFrame(news_data))
                    /\ returned' = DataFrame(news_data)
                    /\ pc' = "finally"
                    /\ UNCHANGED failedAt
                 \/ /\ Fail("write")
                    /\ UNCHANGED <<file, returned>>
            ELSE /\ returned' = DataFrame(news_data)
                 /\ pc' = "finally"
                 /\ UNCHANGED <<file, failedAt>>
       ELSE /\ returned' = EmptyFrame
            /\ pc' = "finally"
            /\ UNCHANGED <<file, failedAt>>
    /\ UNCHANGED <<browserVars, inputVars, loginVars, pageVars, articleVars, fetchVars>>

\* lines 315-323: the except clause.  Its own df.to_csv is not protected: when it
\* raises, the exception leaves scrape() (after the finally clause).
Handler ==
    /\ pc = "handler"
    /\ IF news_data # <<>>
       THEN IF output_file # None
            THEN \/ /\ file' = Some(DataFrame(news_data))
                    /\ returned' = DataFrame(news_data)
                 \/ /\ returned' = Raised
                    /\ UNCHANGED file
            ELSE /\ returned' = DataFrame(news_data)
                 /\ UNCHANGED file
       ELSE /\ returned' = EmptyFrame
            /\ UNCHANGED file
    /\ pc' = "finally"
    /\ UNCHANGED <<browserVars, inputVars, loginVars, pageVars, articleVars, failedAt,
                   fetchVars>>

\* lines 325-328: the finally clause; self.driver is not reset afterwards
Finally ==
    /\ pc = "finally"
    /\ IF driver # None
       THEN quitCount' = quitCount + 1
       ELSE UNCHANGED quitCount
    /\ pc' = "done"
    /\ UNCHANGED <<driver, startCount, inputVars, loginVars, pageVars, articleVars,
                   file, returned, failedAt, fetchVars>>

\* lines 330-334: close(), called by the user before or after scrape()
Close ==
    /\ pc \in {"idle", "done"}
    /\ IF driver # None
       THEN /\ quitCount < MaxQuits
            /\ quitCount' = quitCount + 1
       ELSE UNCHANGED quitCount
    /\ UNCHANGED <<pc, driver, startCount, inputVars, loginVars, pageVars, articleVars,
                   file, returned, failedAt, fetchVars>>

Next ==
    \/ ScrapeStart
    \/ OpenPortal
    \/ LoginStep
    \/ Renavigate
    \/ FillFields
    \/ SubmitSearch
    \/ ReadResults
    \/ HarvestPage
    \/ TruncateLinks
    \/ FetchNext
    \/ Export
    \/ Handler
    \/ Finally
    \/ Close

Spec == Init /\ [][Next]_vars

(* ------------- _fetch_article_content evaluated on its own ------------- *)
InitFetch ==
    /\ pc = "fetch"
    /\ driver = Some("Edge")
    /\ startCount = 1
    /\ quitCount = 0
    /\ manual_mode = FALSE
    /\ output_file = None
    /\ max_pages = None
    /\ max_articles = 0
    /\ loginClicked = FALSE
    /\ loginError = FALSE
    /\ inputWaits = 0
    /\ total_results = 0
    /\ total_pages = 0
    /\ pagesHarvested = <<>>
    /\ pbarPages = 0
    /\ harvested = <<>>
    /\ news_links = <<>>
    /\ visited = <<>>
    /\ pbarArticles = 0
    /\ news_data = <<>>
    /\ file = None
    /\ returned = NoResult
    /\ failedAt = "none"
    /\ fEnv \in AllEnvs
    /\ fRec = NoRec

ApplyFetch ==
    /\ pc = "fetch"
    /\ fRec' = FetchArticle(<<1, 1>>, 1, fEnv)
    /\ pc' = "fetched"
    /\ UNCHANGED <<browserVars, inputVars, loginVars, pageVars, articleVars, file,
                   returned, failedAt, fEnv>>

NextFetch == ApplyFetch

SpecFetch == InitFetch /\ [][NextFetch]_vars

(* ============================== claims ================================= *)
\* the statement positions at which scrape() has left its try block or returned
Leaving == {"handler", "finally", "done"}
\* the page loop and the article loop both ran to their end
LoopsFinished == pc \in Leaving /\ failedAt \in {"none", "write"}
\* the fatal steps of the search workflow: steps 1, 3 and 4
SearchSteps == {"nav1", "renav", "fill", "submit"}
Identity(n) == [i \in 1..n |-> i]

\* C1: once scrape() has ended, driver.quit was invoked exactly once for each
\* browser it started, also after any number of close() calls.
C1_TeardownExactlyOnce == pc = "done" => quitCount = startCount

\* C2: in the article loop every visited link has exactly one record, the links are
\* visited in list order, each record carries Title, Date and Content and belongs
\* to the link at its position (its News ID is parsed from that link, or it is the
\* failure record of that index), and when the loop has finished there are as many
\* records as links.
C2_OneRecordPerLink ==
    /\ Len(news_data) = Len(visited)
    /\ Len(visited) <= Len(news_links)
    /\ visited = SubSeq(news_links, 1, Len(visited))
    /\ \A i \in 1..Len(news_data) :
          /\ {"Title", "Date", "Content"} \subseteq DOMAIN news_data[i]
          /\ IF "News ID" \in DOMAIN news_data[i]
             THEN news_data[i]["News ID"] \in
                    {"Unknown ID", ToString(10 * visited[i][1] + visited[i][2])}
             ELSE news_data[i]["Title"] = "Article " \o ToString(i) \o " (processing failed)"
    /\ LoopsFinished => Len(news_data) = Len(news_links)

\* C2 witness: a finished loop over three links whose second article could not be
\* opened and whose third article failed in every extraction step
C2_Witness ==
    /\ pc = "done"
    /\ failedAt = "none"
    /\ Len(news_links) = 3
    /\ Len(news_data) = 3
    /\ "News ID" \in DOMAIN news_data[1]
    /\ "News ID" \notin DOMAIN news_data[2]
    /\ news_data[3]["Content"] = "Content extraction failed"

\* C3: when the scrape was aborted after records had been collected, scrape()
\* returns a table with exactly those records and, with an output path, the file
\* holds the same rows.
C3_PartialSave ==
    (pc = "done" /\ failedAt \notin {"none", "setup"} /\ news_data # <<>>)
    => /\ returned.kind = "table"
       /\ returned.rows = news_data
       /\ output_file # None => (file # None /\ file[1].rows = news_data)

\* C4: every returned table has exactly the columns News ID, Title, Date, Content,
\* and every row carries all four fields, News ID being digits or "Unknown ID".
C4_FixedColumns ==
    returned.kind = "table"
    => /\ SeqToSet(returned.columns) = SeqToSet(FourKeys)
       /\ \A i \in 1..Len(returned.rows) :
             /\ DOMAIN returned.rows[i] = SeqToSet(FourKeys)
             /\ returned.rows[i]["News ID"] \in {"Unknown ID"} \cup {ToString(n) : n \in 0..99}

\* C5: after truncation the links to be visited number at most max_articles and
\* are the first harvested links in their order (stated for the runs in which at
\* least one link is left to visit).
C5_Truncation ==
    (pc = "articles" /\ news_links # <<>>)
    => /\ Len(news_links) <= max_articles
       /\ news_links = SubSeq(harvested, 1, Len(news_links))

\* ceil(t / 20), stated by its defining inequalities
CeilOf(t) == CHOOSE n \in 0..t : PageSize * n >= t /\ (n = 0 \/ PageSize * (n - 1) < t)

\* C6 as claimed: when the page loop has finished, the pages harvested are
\* 1..min(max_pages, ceil(total_results / 20)) for every max_pages that is not None.
C6_PageCountAsClaimed ==
    (pc = "articles" \/ LoopsFinished)
    => /\ pagesHarvested =
            Identity(IF max_pages = None THEN CeilOf(total_results)
                     ELSE Min(max_pages[1], CeilOf(total_results)))
       /\ pbarPages = Len(pagesHarvested)

\* C6 amended: max_pages clamps the page count only when it is positive; None, 0 and
\* negative values leave ceil(total_results / 20).  When the page loop has finished
\* the pages harvested are 1..total_pages in increasing order, each once, and the
\* progress counter always equals the number of pages harvested.
C6_PageCount ==
    /\ pbarPages = Len(pagesHarvested)
    /\ pagesHarvested = Identity(Len(pagesHarvested))
    /\ (pc = "articles" \/ LoopsFinished)
       => pagesHarvested =
            Identity(IF max_pages # None /\ max_pages[1] > 0
                     THEN Min(max_pages[1], CeilOf(total_results))
                     ELSE CeilOf(total_results))

\* C6 witness: max_pages = 0 and 21 results: both pages were harvested
C6_Witness ==
    /\ pc = "articles"
    /\ max_pages = Some(0)
    /\ total_results = 21
    /\ pagesHarvested = <<1, 2>>
    /\ pbarPages = 2

\* C7 as claimed: a failure of step 1, 3 or 4 raises to the caller of scrape().
C7_RaisesToCaller ==
    (pc = "done" /\ failedAt \in SearchSteps)
    => /\ returned.kind = "raised"
       /\ pagesHarvested = <<>>
       /\ visited = <<>>

\* C7 amended: a failure of step 1, 3 or 4 ends the scrape: control goes to the
\* handler, no result page is harvested and no article is visited afterwards, and
\* scrape() does not raise but returns an empty table.
C7_FatalSearchFailure ==
    failedAt \in SearchSteps
    => /\ pc \in Leaving
       /\ pagesHarvested = <<>>
       /\ harvested = <<>>
       /\ visited = <<>>
       /\ news_data = <<>>
       /\ pc \in {"finally", "done"} => (returned.kind = "table" /\ returned.rows = <<>>)

\* C7 witness: the search button could not be pressed and scrape() has returned
C7_Witness ==
    /\ pc = "done"
    /\ failedAt = "submit"
    /\ returned.kind = "table"
    /\ quitCount = 1

\* C8 as claimed: on normal completion the file is written iff an output path was
\* given, for every number of processed articles including zero.
C8_WrittenIffPath ==
    (pc = "done" /\ failedAt = "none")
    => /\ file # None <=> output_file # None
       /\ file # None => Len(file[1].rows) = Len(visited)

\* C8 amended: on normal completion the file is written iff an output path was given
\* and at least one article was processed; it then holds one row per processed
\* article, in order.
C8_WrittenIffPathAndRows ==
    (pc \in {"finally", "done"} /\ failedAt = "none")
    => /\ file # None <=> (output_file # None /\ Len(visited) > 0)
       /\ file # None => (file[1].rows = news_data /\ Len(file[1].rows) = Len(news_links))

\* C8 witness: a normal completion that wrote two rows
C8_Witness ==
    /\ pc = "done"
    /\ failedAt = "none"
    /\ output_file = Some("out.csv")
    /\ file # None
    /\ Len(file[1].rows) = 2
    /\ Len(visited) = 2

\* the selector order the claim fixes
C9_Order == <<"//article", "//div[contains(@class, 'article')]",
              "//div[contains(@class, 'content')]", "//div[contains(@class, 'story')]">>
\* selector number i yields non-empty text
C9_Yields(i) ==
    /\ fEnv.sel[C9_Order[i]].kind = "found"
    /\ \E k \in 1..Len(fEnv.sel[C9_Order[i]].paras) : fEnv.sel[C9_Order[i]].paras[k] # ""

\* C9: the content is the newline-joined non-empty paragraph texts of the first
\* selector, in the order article, 'article', 'content', 'story', that yields
\* non-empty text; the cleaned body text is used only when none yields; the
\* sentinel is used only when none yields and the body lookup throws.
C9_SelectorCascade ==
    (pc = "fetched" /\ fEnv.nav)
    => /\ \A i \in 1..4 :
            (C9_Yields(i) /\ \A j \in 1..(i - 1) : ~C9_Yields(j))
            => fRec["Content"] =
                 JoinLines(SelectSeq(fEnv.sel[C9_Order[i]].paras, NonEmpty))
       /\ ((\A i \in 1..4 : ~C9_Yields(i)) /\ fEnv.body # None)
            => fRec["Content"] = CleanBody(fEnv.body[1])
       /\ fRec["Content"] = "Content extraction failed"
            <=> ((\A i \in 1..4 : ~C9_Yields(i)) /\ fEnv.body = None)

\* C9 witness: only the 'story' selector yields text, the earlier ones throw, match
\* nothing or hold an empty paragraph, and the body has text of its own
C9_Witness ==
    /\ pc = "fetched"
    /\ fEnv.nav
    /\ fEnv.sel[C9_Order[1]] = Throws
    /\ fEnv.sel[C9_Order[2]] = NoMatch
    /\ fEnv.sel[C9_Order[3]] = Found(<<"">>)
    /\ fEnv.sel[C9_Order[4]] = Found(<<"", "b">>)
    /\ fEnv.body = Some(<<"Home", "body text", "News">>)
    /\ fRec["Content"] = "b"

\* C10: the login step always hands over to the re-navigation, whatever fails in
\* it; input() is called at most once, only in manual-login mode and only after
\* the login control was clicked.
C10_LoginNonFatal ==
    /\ [](/\ inputWaits <= 1
          /\ inputWaits = 1 => (manual_mode /\ loginClicked)
          /\ failedAt # "login")
    /\ [][pc = "login" => pc' = "renav"]_vars

\* C10 witness: manual mode, the control was clicked, the wait for input failed,
\* and the workflow is at the re-navigation
C10_Witness ==
    /\ pc = "renav"
    /\ manual_mode
    /\ loginClicked
    /\ loginError
    /\ inputWaits = 1
    /\ failedAt = "none"

=============================================================================
